---- MODULE Spec2Model ----
(***************************************************************************)
(* Dynamic context loading: the tool registry, the loader meta-tool and    *)
(* the conversation loop of dcl_function_calling.py (Mode A, flat) and     *)
(* dcl_mcp.py (Mode B, partitioned by MCP server).                         *)
(***************************************************************************)
EXTENDS Integers, Sequences, FiniteSets, TLC

(* ---- bounds ---- *)
MaxTurns == 1      \* model requests that answer with tool calls
MaxCalls == 3      \* tool calls iterated per assistant message
MaxArgs  == 2      \* length of a servers / tools / tool_names argument list
MaxApiCalls == 4   \* method calls made on the MCPServerManager objects

(* ---- program constants ---- *)
BriefLimit == 100

VARIABLES
  mode,                 \* "A": dcl_function_calling.py, "B": dcl_mcp.py
  pc,                   \* position of the program
  exc,                  \* the exception that escaped main, "none" if none
  TOOL_REGISTRY,        \* name -> binding
  registrations,        \* the Tool(...) constructions so far, oldest first
  active_tools,         \* list of the names of the definitions exposed
  description,          \* description field of the loader's definition
  briefs,               \* Mode A: closure variable of create_loader_tool
  SERVER_BRIEFS,        \* Mode B: server -> generate_briefs result
  LOADER_STATE,         \* Mode B: LOADER_STATE["servers"]
  MCP_SERVER_MANAGERS,  \* Mode B: server -> stored manager
  exit_stack,           \* Mode B: server -> state of its manager's exit stack
  manager,              \* Mode B: server -> the fields of its MCPServerManager
  srv_i,                \* Mode B: position of load_mcp_tools in MCP_SERVERS
  turn,                 \* assistant messages with tool calls so far
  tc,                   \* tool calls of the current message iterated so far
  tool_call,            \* loop variable of the dispatch loop
  result,               \* local `result` of main
  invoked,              \* tool function entered by the latest iteration
  messages              \* tool messages appended since the last assistant message

vars == <<mode, pc, exc, TOOL_REGISTRY, registrations, active_tools, description, briefs,
          SERVER_BRIEFS, LOADER_STATE, MCP_SERVER_MANAGERS, exit_stack, manager, srv_i,
          turn, tc, tool_call, result, invoked, messages>>

(* ---- helpers ---- *)
Range(s) == {s[i] : i \in 1..Len(s)}

Count(x, s) == Cardinality({i \in 1..Len(s) : s[i] = x})

NoDup(s) == \A i, j \in 1..Len(s) : s[i] = s[j] => i = j

SeqsUpTo(S, n) == UNION {[1..k -> S] : k \in 0..n}

\* dict item assignment that keeps the binding a key already has
JoinKeep(f, g) == [x \in DOMAIN f \cup DOMAIN g |-> IF x \in DOMAIN f THEN f[x] ELSE g[x]]

Join(f, g) == [x \in DOMAIN f \cup DOMAIN g |-> IF x \in DOMAIN g THEN g[x] ELSE f[x]]

EmptyMap == [x \in {} |-> ""]

NoServer == ""
NoTool   == ""
NoCall   == [kind |-> "none", action |-> "", servers |-> <<>>, tools |-> <<>>,
             server |-> NoServer, name |-> NoTool, fails |-> FALSE]
NoResult == [kind |-> "none", server |-> NoServer,
             activated |-> <<>>, failed |-> <<>>, errors |-> <<>>]

(* ---- the registered tools ---- *)
\* MCP_SERVERS, in the order the dict is iterated
Servers == <<"github", "figma">>

\* tool lists a server's list_tools may answer with
ListCandidates(s) ==
  IF s = "github" THEN {<<"search", "draw">>} ELSE {<<"draw", "loader">>}

LongDescription ==
  "Search for GitHub repositories, issues, pull requests and code across all of the repositories the authenticated user can access."

RemoteDescription(name) ==
  IF name = "search" THEN LongDescription ELSE "Remote tool " \o name

\* Tool.__init__ of dcl_mcp.py, Tool.__init__ of dcl_function_calling.py
Binding(server, kind, desc) == [server |-> server, kind |-> kind, description |-> desc]

\* the four example tools registered at import of dcl_function_calling.py
ExampleTools ==
  [n \in {"bash", "read", "calculator", "get_weather"} |->
     CASE n = "bash"        -> Binding(NoServer, "async", "Executes bash commands with security checks and timeout.")
       [] n = "read"        -> Binding(NoServer, "sync", "Reads files from the local filesystem.")
       [] n = "calculator"  -> Binding(NoServer, "sync", "Performs mathematical calculations.")
       [] n = "get_weather" -> Binding(NoServer, "sync", "Gets the current weather for a location.")]

\* loop of MCPServerManager.list_tools cut after its first tool
RegisterFirstOnly(reg, server, tools) ==
  IF tools = <<>> THEN reg
  ELSE Join(reg, [n \in {tools[1]} |-> Binding(server, "remote", RemoteDescription(n))])

\* loop of MCPServerManager.list_tools: one Tool(...) per listed tool
RegisterTools(reg, server, tools) ==
  Join(reg, [n \in Range(tools) |-> Binding(server, "remote", RemoteDescription(n))])

\* one Tool(...) construction: the name and what it was bound to
Registration(name, server, kind) == [name |-> name, server |-> server, kind |-> kind]

\* lines 311-314 of dcl_function_calling.py, in order
ExampleRegistrations ==
  <<Registration("bash", NoServer, "async"), Registration("read", NoServer, "sync"),
    Registration("calculator", NoServer, "sync"),
    Registration("get_weather", NoServer, "sync")>>

RegisterLoader(reg) ==
  Join(reg, [n \in {"loader"} |-> Binding(NoServer, "loader", "")])

ActiveNames == Range(active_tools)

\* MCPServerManager.__init__: no session; initialize() has not been called
NewManager == [session |-> FALSE, initialized |-> "no"]

\* the ways MCPServerManager.initialize can end: the subprocess cannot be
\* spawned, the handshake with it fails, or it returns
InitOutcomes == {"spawn_fails", "handshake_fails", "ok"}

\* MCPServerManager.initialize: the exit stack and the session field it leaves.
\* stdio_client is entered first (line 100), then ClientSession, whose result
\* is assigned to self.session (line 103) before the handshake (line 107).
Initialize(outcome) ==
  [stack   |-> IF outcome = "spawn_fails" THEN "unused" ELSE "open",
   manager |-> [session     |-> outcome # "spawn_fails",
                initialized |-> IF outcome = "ok" THEN "ok" ELSE "failed"]]

Init ==
  /\ mode \in {"A", "B"}
  /\ pc = IF mode = "A" THEN "create_loader" ELSE "load"
  /\ exc = "none"
  /\ TOOL_REGISTRY = IF mode = "A" THEN ExampleTools ELSE [n \in {} |-> Binding("", "", "")]
  /\ registrations = IF mode = "A" THEN ExampleRegistrations ELSE <<>>
  /\ active_tools = <<>>
  /\ description = EmptyMap
  /\ briefs = EmptyMap
  /\ SERVER_BRIEFS = EmptyMap
  /\ LOADER_STATE = EmptyMap
  /\ MCP_SERVER_MANAGERS = EmptyMap
  /\ exit_stack = [s \in Range(Servers) |-> "unused"]
  /\ manager = [s \in Range(Servers) |-> NewManager]
  /\ srv_i = 1
  /\ turn = 0
  /\ tc = 0
  /\ tool_call = NoCall
  /\ result = NoResult
  /\ invoked = NoTool
  /\ messages = <<>>

(* ---- Mode B: load_mcp_tools ---- *)
LoadAdvance ==
  /\ srv_i' = srv_i + 1
  /\ pc' = IF srv_i = Len(Servers) THEN "briefs" ELSE "load"

\* lines 173-177: the state a loaded server starts in
NewServerState == [descriptions_loaded |-> TRUE, summaries_loaded |-> FALSE,
                   active_tools |-> <<>>]

\* one iteration of load_mcp_tools whose initialize() raises; the exit stack
\* may already hold the stdio transport when the handshake fails
LoadServerInitFails ==
  /\ mode = "B" /\ pc = "load"
  /\ \E outcome \in InitOutcomes \ {"ok"} :
       /\ exit_stack' = [exit_stack EXCEPT ![Servers[srv_i]] = Initialize(outcome).stack]
       /\ manager' = [manager EXCEPT ![Servers[srv_i]] = Initialize(outcome).manager]
  /\ LoadAdvance
  /\ UNCHANGED <<mode, registrations, exc, TOOL_REGISTRY, active_tools, description, briefs,
                 SERVER_BRIEFS, LOADER_STATE, MCP_SERVER_MANAGERS, turn, tc,
                 tool_call, result, invoked, messages>>

\* one iteration whose initialize() never returns: the handshake of line 107 is
\* awaited without a timeout, and load_mcp_tools stays in this iteration
LoadServerInitHangs ==
  /\ mode = "B" /\ pc = "load"
  /\ exit_stack' = [exit_stack EXCEPT ![Servers[srv_i]] = "open"]
  /\ manager' = [manager EXCEPT ![Servers[srv_i]].session = TRUE]
  /\ pc' = "init_hung"
  /\ UNCHANGED <<mode, registrations, exc, TOOL_REGISTRY, active_tools, description, briefs,
                 SERVER_BRIEFS, LOADER_STATE, MCP_SERVER_MANAGERS, srv_i, turn, tc,
                 tool_call, result, invoked, messages>>

\* one iteration whose session.list_tools() raises: nothing was registered yet
LoadServerListFails ==
  /\ mode = "B" /\ pc = "load"
  /\ exit_stack' = [exit_stack EXCEPT ![Servers[srv_i]] = Initialize("ok").stack]
  /\ manager' = [manager EXCEPT ![Servers[srv_i]] = Initialize("ok").manager]
  /\ LoadAdvance
  /\ UNCHANGED <<mode, registrations, exc, TOOL_REGISTRY, active_tools, description, briefs,
                 SERVER_BRIEFS, LOADER_STATE, MCP_SERVER_MANAGERS, turn, tc,
                 tool_call, result, invoked, messages>>

\* line 168 skipped: the manager is not stored
DropManager(managers, s, tools) == managers

\* line 168: MCP_SERVER_MANAGERS[server_name] = manager
StoreManager(managers, s, tools) ==
  Join(managers, [x \in {s} |-> [session |-> TRUE, tools |-> tools]])

\* one iteration that succeeds: tools registered, manager and state stored
LoadServerOk ==
  /\ mode = "B" /\ pc = "load"
  /\ \E tools \in ListCandidates(Servers[srv_i]) :
       LET s == Servers[srv_i] IN
       /\ TOOL_REGISTRY' = RegisterTools(TOOL_REGISTRY, s, tools)
       /\ registrations' = registrations \o
            [i \in 1..Len(tools) |-> Registration(tools[i], s, "remote")]
       /\ MCP_SERVER_MANAGERS' = StoreManager(MCP_SERVER_MANAGERS, s, tools)
       /\ LOADER_STATE' = Join(LOADER_STATE, [x \in {s} |-> NewServerState])
       /\ exit_stack' = [exit_stack EXCEPT ![s] = Initialize("ok").stack]
       /\ manager' = [manager EXCEPT ![s] = Initialize("ok").manager]
  /\ LoadAdvance
  /\ UNCHANGED <<mode, exc, active_tools, description, briefs, SERVER_BRIEFS,
                 turn, tc, tool_call, result, invoked, messages>>

(* ---- generate_briefs ---- *)
Truncate(desc) ==
  IF Len(desc) > BriefLimit THEN SubSeq(desc, 1, BriefLimit) \o "..." ELSE desc

LLMBrief == "brief written by the summarizer"

\* what the completion call of generate_briefs can do
SummarizerKinds == {"raise", "empty", "unparsable", "json", "json_nondict"}

\* key sets a JSON answer may carry for the requested names
KeySets(names) ==
  {names} \cup {names \ {n} : n \in names \cap {"calculator"}}
          \cup (IF "calculator" \in names THEN {names \cup {"bogus"}} ELSE {})

\* dcl_function_calling.generate_briefs; status "ok" carries the returned dict,
\* "none" is the implicit return None, "raise" an escaping exception
GenerateBriefsA(reg, tools_list, kind, keys) ==
  LET defs == tools_list \cap DOMAIN reg IN
  IF tools_list = {} \/ defs = {} THEN [status |-> "ok", value |-> EmptyMap]
  ELSE CASE kind = "raise"        -> [status |-> "raise", value |-> EmptyMap]
         [] kind = "empty"        -> [status |-> "none", value |-> EmptyMap]
         [] kind = "json_nondict" -> [status |-> "nondict", value |-> EmptyMap]
         [] kind = "json"         -> [status |-> "ok", value |-> [n \in keys |-> LLMBrief]]
         [] kind = "unparsable"   ->
              [status |-> "ok",
               value  |-> [n \in defs |-> Truncate(reg[n].description)]]

EmptyBriefs == [server_summary |-> "", tool_briefs |-> EmptyMap]

\* dcl_mcp.generate_briefs; tools_list holds the server's tool objects.  The
\* fallback looks the tool objects (not their names) up in TOOL_REGISTRY: the
\* lookup raises when the objects are unhashable (hashable = FALSE) and finds
\* nothing otherwise.
GenerateBriefsB(reg, tools_list, server, kind, keys, hashable) ==
  LET defs == {n \in Range(tools_list) : n \in DOMAIN reg /\ reg[n].server = server} IN
  IF tools_list = <<>> \/ server = NoServer \/ defs = {}
    THEN [status |-> "ok", value |-> EmptyBriefs]
  ELSE CASE kind = "raise"        -> [status |-> "raise", value |-> EmptyBriefs]
         [] kind = "json_nondict" -> [status |-> "nondict", value |-> EmptyBriefs]
         [] kind = "json"         ->
              [status |-> "ok",
               value  |-> [server_summary |-> "summary written by the summarizer",
                           tool_briefs |-> [n \in keys |-> LLMBrief]]]
         [] kind \in {"empty", "unparsable"} ->
              IF hashable
                THEN [status |-> "ok",
                      value  |-> [server_summary |-> server \o " MCP server provides various tools for specific tasks.",
                                  tool_briefs |-> EmptyMap]]
                ELSE [status |-> "raise", value |-> EmptyBriefs]

\* dcl_mcp.generate_loader_description: per server its summary and, once the
\* summaries are loaded, its tool briefs
GenerateLoaderDescription(sb, ls) ==
  [s \in DOMAIN sb |->
     [summary |-> sb[s].server_summary,
      loaded  |-> ls[s].summaries_loaded,
      tools   |-> IF ls[s].summaries_loaded THEN sb[s].tool_briefs ELSE EmptyMap]]

(* ---- create_loader_tool ---- *)
\* Mode A, lines 120-182 (run at import, line 317): briefs for the current
\* registry keys, the description built from them, the loader registered
CreateLoaderToolA ==
  /\ mode = "A" /\ pc = "create_loader"
  /\ \E kind \in SummarizerKinds, keys \in KeySets(DOMAIN TOOL_REGISTRY) :
       LET r == GenerateBriefsA(TOOL_REGISTRY, DOMAIN TOOL_REGISTRY, kind, keys) IN
       IF r.status = "ok"
         THEN /\ briefs' = r.value
              /\ description' = r.value
              /\ TOOL_REGISTRY' = RegisterLoader(TOOL_REGISTRY)
              /\ registrations' = Append(registrations, Registration("loader", NoServer, "loader"))
              /\ pc' = "main"
              /\ exc' = exc
         ELSE \* the completion raised, or briefs.items() raised on None / a non-dict
              /\ pc' = "crashed"
              /\ exc' = "briefs"
              /\ UNCHANGED <<briefs, description, TOOL_REGISTRY, registrations>>
  /\ UNCHANGED <<mode, manager, active_tools, SERVER_BRIEFS, LOADER_STATE,
                 MCP_SERVER_MANAGERS, exit_stack, srv_i, turn, tc, tool_call,
                 result, invoked, messages>>

\* the server whose briefs the loop of lines 287-291 generates next
NextBriefServer ==
  LET todo == {i \in 1..Len(Servers) :
                 Servers[i] \in DOMAIN LOADER_STATE /\ Servers[i] \notin DOMAIN SERVER_BRIEFS}
  IN IF todo = {} THEN NoServer
     ELSE Servers[CHOOSE i \in todo : \A j \in todo : i <= j]

\* Mode B, lines 287-291: one iteration of the briefs loop
GenerateServerBriefs ==
  /\ mode = "B" /\ pc = "briefs" /\ NextBriefServer # NoServer
  /\ LET s == NextBriefServer
         tools == MCP_SERVER_MANAGERS[s].tools IN
     \E kind \in SummarizerKinds, keys \in KeySets(Range(tools)), hashable \in BOOLEAN :
       LET r == GenerateBriefsB(TOOL_REGISTRY, tools, s, kind, keys, hashable) IN
       IF r.status = "ok"
         THEN /\ SERVER_BRIEFS' = Join(SERVER_BRIEFS, [x \in {s} |-> r.value])
              /\ UNCHANGED <<pc, exc>>
         ELSE \* raised here, or data.get raises in generate_loader_description;
              \* main has not entered its try block: no manager is closed
              /\ pc' = "crashed"
              /\ exc' = "briefs"
              /\ UNCHANGED SERVER_BRIEFS
  /\ UNCHANGED <<mode, manager, registrations, TOOL_REGISTRY, active_tools, description, briefs,
                 LOADER_STATE, MCP_SERVER_MANAGERS, exit_stack, srv_i, turn, tc,
                 tool_call, result, invoked, messages>>

\* Mode B, lines 293-391: description generated, loader registered
CreateLoaderToolB ==
  /\ mode = "B" /\ pc = "briefs" /\ NextBriefServer = NoServer
  /\ description' = GenerateLoaderDescription(SERVER_BRIEFS, LOADER_STATE)
  /\ TOOL_REGISTRY' = RegisterLoader(TOOL_REGISTRY)
  /\ registrations' = Append(registrations, Registration("loader", NoServer, "loader"))
  /\ pc' = "main"
  /\ UNCHANGED <<mode, manager, exc, active_tools, briefs, SERVER_BRIEFS, LOADER_STATE,
                 MCP_SERVER_MANAGERS, exit_stack, srv_i, turn, tc, tool_call,
                 result, invoked, messages>>

\* main up to its loop: active_tools.append(loader_tool.definition)
StartConversation ==
  /\ pc = "main"
  /\ active_tools' = Append(active_tools, "loader")
  /\ pc' = "request"
  /\ UNCHANGED <<mode, manager, registrations, exc, TOOL_REGISTRY, description, briefs, SERVER_BRIEFS,
                 LOADER_STATE, MCP_SERVER_MANAGERS, exit_stack, srv_i, turn, tc,
                 tool_call, result, invoked, messages>>

(* ---- loader_execute, Mode A ---- *)
\* line 139 / line 334, dropped: nothing counts as loaded
NeverLoaded(name, active_tool_names) == FALSE

\* line 139 / line 334: `name in active_tool_names`, the names snapshot taken
\* before the loop
AlreadyLoaded(name, active_tool_names) == name \in Range(active_tool_names)

\* line 142 dropped: every name counts as briefed
AnyBriefed(name, b) == TRUE

\* line 142: `name not in briefs` negated
InBriefs(name, b) == name \in DOMAIN b

Report(kind, server, activated, failed, errors) ==
  [kind |-> kind, server |-> server, activated |-> activated, failed |-> failed,
   errors |-> errors]

RECURSIVE ActivateLoopA(_, _, _, _, _, _)
\* lines 138-150; acc carries active_tools, activated, failed, errors
ActivateLoopA(names, i, snapshot, reg, b, acc) ==
  IF i > Len(names) THEN acc
  ELSE LET name == names[i] IN
       ActivateLoopA(names, i + 1, snapshot, reg, b,
         IF AlreadyLoaded(name, snapshot)
           THEN [acc EXCEPT !.errors = Append(@, name)]
         ELSE IF ~InBriefs(name, b)
           THEN [acc EXCEPT !.failed = Append(@, name)]
         ELSE IF name \in DOMAIN reg
           THEN [acc EXCEPT !.active = Append(@, name), !.activated = Append(@, name)]
         ELSE [acc EXCEPT !.failed = Append(@, name)])

\* lines 129-161 with active_tools rebuilt from the names of this call only
LoaderExecuteAReplacing(call, active, reg, b) ==
  IF call.action # "activate"
    THEN [active |-> active, result |-> Report("err_not_list", NoServer, <<>>, <<>>, <<>>)]
  ELSE LET acc == ActivateLoopA(call.tools, 1, active, reg, b,
                    [active |-> <<>>, activated |-> <<>>, failed |-> <<>>, errors |-> <<>>])
       IN [active |-> acc.active,
           result |-> Report("report", NoServer, acc.activated, acc.failed, acc.errors)]

\* lines 129-161
LoaderExecuteA(call, active, reg, b) ==
  IF call.action # "activate"
    THEN [active |-> active, result |-> Report("err_not_list", NoServer, <<>>, <<>>, <<>>)]
  ELSE LET acc == ActivateLoopA(call.tools, 1, active, reg, b,
                    [active |-> active, activated |-> <<>>, failed |-> <<>>, errors |-> <<>>])
       IN [active |-> acc.active,
           result |-> Report("report", NoServer, acc.activated, acc.failed, acc.errors)]

(* ---- loader_execute, Mode B ---- *)
RECURSIVE SummariesLoop(_, _, _)
\* lines 305-314: the loop returns at the first server that is not recognized
SummariesLoop(servers, i, ls) ==
  IF i > Len(servers)
    THEN [ls |-> ls, result |-> Report("summaries_loaded", NoServer, servers, <<>>, <<>>)]
  ELSE IF servers[i] \notin DOMAIN ls
    THEN [ls |-> ls,
          result |-> Report("err_not_recognized", servers[i], <<>>, <<>>, <<>>)]
  ELSE SummariesLoop(servers, i + 1, [ls EXCEPT ![servers[i]].summaries_loaded = TRUE])

\* lines 321-324 without the summaries_loaded test
ServerUnknown(ls, server) == server \notin DOMAIN ls

\* lines 321-324: the server is unknown or its summaries are not loaded
SummariesMissing(ls, server) ==
  server \notin DOMAIN ls \/ ~ls[server].summaries_loaded

\* line 339 without the server test
Registered(reg, name, server) == name \in DOMAIN reg

\* line 339: `tool_info and tool_info.server == server`
OwnedBy(reg, name, server) == name \in DOMAIN reg /\ reg[name].server = server

RECURSIVE ActivateLoopB(_, _, _, _, _, _)
\* lines 333-344; acc carries active_tools, the server's active_tools list,
\* activated, failed, errors
ActivateLoopB(names, i, snapshot, reg, server, acc) ==
  IF i > Len(names) THEN acc
  ELSE LET name == names[i] IN
       ActivateLoopB(names, i + 1, snapshot, reg, server,
         IF AlreadyLoaded(name, snapshot)
           THEN [acc EXCEPT !.errors = Append(@, name)]
         ELSE IF OwnedBy(reg, name, server)
           THEN [acc EXCEPT !.active = Append(@, name),
                            !.server_active = Append(@, name),
                            !.activated = Append(@, name)]
         ELSE [acc EXCEPT !.failed = Append(@, name)])

\* line 341 skipped: the server's list is left as it was
KeepServerActive(ls, server, names) == ls

\* line 341, once per activated name: the server's active_tools list after
\* the loop
SetServerActive(ls, server, names) == [ls EXCEPT ![server].active_tools = names]

\* lines 296-356
LoaderExecuteB(call, active, ls, reg, managers) ==
  LET same(res) == [active |-> active, ls |-> ls, result |-> res] IN
  IF call.action = "load_tool_summaries"
    THEN IF call.servers = <<>>
           THEN same(Report("err_servers_required", NoServer, <<>>, <<>>, <<>>))
           ELSE LET r == SummariesLoop(call.servers, 1, ls)
                IN [active |-> active, ls |-> r.ls, result |-> r.result]
  ELSE IF call.action = "load_tools"
    THEN IF call.tools = <<>> \/ call.server = NoServer
           THEN same(Report("err_tools_server_required", NoServer, <<>>, <<>>, <<>>))
         ELSE IF SummariesMissing(ls, call.server)
           THEN same(Report("err_summaries_first", call.server, <<>>, <<>>, <<>>))
         ELSE IF call.server \notin DOMAIN managers
           THEN same(Report("err_no_manager", call.server, <<>>, <<>>, <<>>))
         ELSE LET acc == ActivateLoopB(call.tools, 1, active, reg, call.server,
                           [active |-> active,
                            server_active |-> ls[call.server].active_tools,
                            activated |-> <<>>, failed |-> <<>>, errors |-> <<>>])
              IN [active |-> acc.active,
                  ls |-> SetServerActive(ls, call.server, acc.server_active),
                  result |-> Report("report", call.server, acc.activated, acc.failed,
                                    acc.errors)]
  ELSE same(Report("err_invalid_action", NoServer, <<>>, <<>>, <<>>))

\* lines 277-280 without the assignment
KeepLoaderToolDescription(active, desc, sb, ls) == desc

\* lines 277-280
RefreshLoaderToolDescription(active, desc, sb, ls) ==
  IF "loader" \in Range(active) THEN GenerateLoaderDescription(sb, ls) ELSE desc

(* ---- the conversation loop ---- *)
\* names the model may put in a call
RequestNames == IF mode = "A" THEN {"calculator", "bash", "bogus", "loader"}
                              ELSE {"search", "draw", "bogus"}

ServerArgs == Range(Servers)

LoaderCall(action, servers, tools, server) ==
  [kind |-> "loader", action |-> action, servers |-> servers, tools |-> tools,
   server |-> server, name |-> "loader", fails |-> FALSE]

ToolCall(name, fails) ==
  [kind |-> "tool", action |-> "", servers |-> <<>>, tools |-> <<>>,
   server |-> NoServer, name |-> name, fails |-> fails]

\* the tool calls an assistant message may carry
Calls ==
  (IF mode = "A"
     THEN {LoaderCall(a, <<>>, <<>>, NoServer) : a \in {"not_a_list", "malformed"}}
          \cup {LoaderCall("activate", <<>>, t, NoServer) : t \in SeqsUpTo(RequestNames, MaxArgs)}
     ELSE {LoaderCall(a, <<>>, <<>>, NoServer) : a \in {"invalid", "malformed"}}
          \cup {LoaderCall("load_tool_summaries", sv, <<>>, NoServer) :
                  sv \in SeqsUpTo(ServerArgs, MaxArgs)}
          \cup {LoaderCall("load_tools", <<>>, t, sv) :
                  t \in SeqsUpTo(RequestNames, MaxArgs), sv \in ServerArgs \cup {NoServer}})
  \cup {ToolCall(n, f) : n \in RequestNames \ {"loader"}, f \in BOOLEAN}

\* the finally block of dcl_mcp.main: every stored manager is closed
CloseAll(es) ==
  [s \in DOMAIN es |-> IF s \in DOMAIN MCP_SERVER_MANAGERS THEN "closed" ELSE es[s]]

Finally == exit_stack' = IF mode = "B" THEN CloseAll(exit_stack) ELSE exit_stack

\* completion(...) answers with tool calls
ModelRequestsTools ==
  /\ pc = "request" /\ turn < MaxTurns
  /\ pc' = "dispatch"
  /\ turn' = turn + 1
  /\ tc' = 0
  /\ messages' = <<>>
  /\ UNCHANGED <<mode, manager, registrations, exc, TOOL_REGISTRY, active_tools, description, briefs,
                 SERVER_BRIEFS, LOADER_STATE, MCP_SERVER_MANAGERS, exit_stack,
                 srv_i, tool_call, result, invoked>>

\* completion(...) answers without tool calls, or with no usable choice: break
ModelAnswers ==
  /\ pc = "request"
  /\ pc' = "done"
  /\ Finally
  /\ UNCHANGED <<mode, manager, registrations, exc, TOOL_REGISTRY, active_tools, description, briefs,
                 SERVER_BRIEFS, LOADER_STATE, MCP_SERVER_MANAGERS, srv_i, turn,
                 tc, tool_call, result, invoked, messages>>

\* completion(...) raises
ModelRequestRaises ==
  /\ pc = "request"
  /\ pc' = "crashed"
  /\ exc' = "completion"
  /\ Finally
  /\ UNCHANGED <<mode, manager, registrations, TOOL_REGISTRY, active_tools, description, briefs,
                 SERVER_BRIEFS, LOADER_STATE, MCP_SERVER_MANAGERS, srv_i, turn,
                 tc, tool_call, result, invoked, messages>>

\* a tool message: the call id and what it carries as content, a text or a
\* coroutine object
ToolMessage(id, content) ==
  [tool_call_id |-> id, content |-> IF content = "coroutine" THEN content ELSE "text"]

\* one iteration of the dispatch loop on a loader call
DispatchLoader(call) ==
  /\ call.kind = "loader"
  /\ tool_call' = call
  /\ tc' = tc + 1
  /\ invoked' = NoTool
  /\ IF call.action = "malformed"
       THEN \* json.loads(args) or the keyword call raises
            /\ pc' = "crashed"
            /\ exc' = "loader_args"
            /\ Finally
            /\ UNCHANGED <<active_tools, LOADER_STATE, description, result, messages>>
     ELSE IF mode = "A"
       THEN LET r == LoaderExecuteA(call, active_tools, TOOL_REGISTRY, briefs) IN
            /\ active_tools' = r.active
            /\ result' = r.result
            /\ messages' = Append(messages, ToolMessage(tc + 1, r.result.kind))
            /\ UNCHANGED <<pc, exc, LOADER_STATE, description, exit_stack>>
     ELSE LET r == LoaderExecuteB(call, active_tools, LOADER_STATE, TOOL_REGISTRY,
                                  MCP_SERVER_MANAGERS) IN
          /\ active_tools' = r.active
          /\ LOADER_STATE' = r.ls
          /\ result' = r.result
          /\ description' = RefreshLoaderToolDescription(r.active, description,
                                                         SERVER_BRIEFS, r.ls)
          /\ messages' = Append(messages, ToolMessage(tc + 1, r.result.kind))
          /\ UNCHANGED <<pc, exc, exit_stack>>
  /\ UNCHANGED <<mode, manager, registrations, TOOL_REGISTRY, briefs, SERVER_BRIEFS, MCP_SERVER_MANAGERS,
                 srv_i, turn>>

\* lines 113-114 and 140-141: `if not self.session: raise RuntimeError(...)`
\* negated; m is the manager's fields
SessionSet(m) == m.session

\* tool_execute of a remote binding raises when its manager has no session
Refused(binding) ==
  binding.kind = "remote" /\ ~SessionSet(manager[binding.server])

\* what the call of a binding's function yields
ToolResult(binding) ==
  Report(IF binding.kind = "async" /\ mode = "A" THEN "coroutine" ELSE "text",
         binding.server, <<>>, <<>>, <<>>)

\* line 462 / line 367: `tool = TOOL_REGISTRY.get(func_name)`, `if tool:`
Lookup(reg, active, name) == name \in DOMAIN reg

\* one iteration of the dispatch loop on a call of another tool
DispatchTool(call) ==
  /\ call.kind = "tool"
  /\ tool_call' = call
  /\ tc' = tc + 1
  /\ IF ~Lookup(TOOL_REGISTRY, active_tools, call.name)
       THEN \* no else branch: nothing is appended
            /\ invoked' = NoTool
            /\ UNCHANGED <<pc, exc, result, messages, exit_stack>>
     ELSE IF call.fails \/ Refused(TOOL_REGISTRY[call.name])
       THEN \* the function raises: no handler up to main's finally
            /\ invoked' = call.name
            /\ pc' = "crashed"
            /\ exc' = "tool"
            /\ Finally
            /\ UNCHANGED <<result, messages>>
     ELSE /\ invoked' = call.name
          /\ result' = ToolResult(TOOL_REGISTRY[call.name])
          /\ messages' = Append(messages, ToolMessage(tc + 1, result'.kind))
          /\ UNCHANGED <<pc, exc, exit_stack>>
  /\ UNCHANGED <<mode, manager, registrations, TOOL_REGISTRY, active_tools, description, briefs,
                 SERVER_BRIEFS, LOADER_STATE, MCP_SERVER_MANAGERS, srv_i, turn>>

\* the for loop takes the next tool call of the message
Dispatch ==
  /\ pc = "dispatch" /\ tc < MaxCalls /\ tool_call = NoCall
  /\ \E call \in Calls : DispatchLoader(call) \/ DispatchTool(call)

\* an iteration of the for loop is over and another tool call follows: the
\* locals of the finished iteration are dead from here on
NextToolCall ==
  /\ pc = "dispatch" /\ tc >= 1 /\ tc < MaxCalls /\ tool_call # NoCall
  /\ tool_call' = NoCall
  /\ result' = NoResult
  /\ invoked' = NoTool
  /\ UNCHANGED <<mode, manager, registrations, pc, exc, TOOL_REGISTRY, active_tools, description,
                 briefs, SERVER_BRIEFS, LOADER_STATE, MCP_SERVER_MANAGERS,
                 exit_stack, srv_i, turn, tc, messages>>

\* the for loop over message.tool_calls ends: back to the model; the loop's
\* locals are dead from here on
EndToolCalls ==
  /\ pc = "dispatch" /\ tc >= 1 /\ tool_call # NoCall
  /\ pc' = "request"
  /\ tool_call' = NoCall
  /\ result' = NoResult
  /\ invoked' = NoTool
  /\ UNCHANGED <<mode, manager, registrations, exc, TOOL_REGISTRY, active_tools, description, briefs,
                 SERVER_BRIEFS, LOADER_STATE, MCP_SERVER_MANAGERS, exit_stack,
                 srv_i, turn, tc, messages>>

Next ==
  \/ LoadServerInitFails
  \/ LoadServerInitHangs
  \/ LoadServerListFails
  \/ LoadServerOk
  \/ CreateLoaderToolA
  \/ GenerateServerBriefs
  \/ CreateLoaderToolB
  \/ StartConversation
  \/ ModelRequestsTools
  \/ ModelAnswers
  \/ ModelRequestRaises
  \/ Dispatch
  \/ NextToolCall
  \/ EndToolCalls

Spec == Init /\ [][Next]_vars

\* the event loop runs whatever step of the program is ready
FairSpec == Spec /\ WF_vars(Next)

(* ---- the methods of MCPServerManager, called in any order ---- *)
ManagerInit ==
  /\ mode = "B"
  /\ pc = "api"
  /\ exc = "none"
  /\ TOOL_REGISTRY = [n \in {} |-> Binding("", "", "")]
  /\ registrations = <<>>
  /\ active_tools = <<>>
  /\ description = EmptyMap
  /\ briefs = EmptyMap
  /\ SERVER_BRIEFS = EmptyMap
  /\ LOADER_STATE = EmptyMap
  /\ MCP_SERVER_MANAGERS = EmptyMap
  /\ exit_stack = [s \in Range(Servers) |-> "unused"]
  /\ manager = [s \in Range(Servers) |-> NewManager]
  /\ srv_i = 1
  /\ turn = 0
  /\ tc = 0
  /\ tool_call = NoCall
  /\ result = NoResult
  /\ invoked = NoTool
  /\ messages = <<>>

MethodCall(kind, server, name) ==
  [NoCall EXCEPT !.kind = kind, !.server = server, !.name = name]

\* a method call is made: tc counts them
ApiCall(kind, server, name) ==
  /\ pc = "api" /\ tc < MaxApiCalls
  /\ tc' = tc + 1
  /\ tool_call' = MethodCall(kind, server, name)
  /\ UNCHANGED <<mode, pc, exc, active_tools, description, briefs, SERVER_BRIEFS,
                 LOADER_STATE, MCP_SERVER_MANAGERS, srv_i, turn, messages>>

\* what a request sent through the session can do: a session whose exit stack
\* was closed only raises
SessionAnswers(s) ==
  IF exit_stack[s] = "closed" THEN {"session_error"} ELSE {"answer", "session_error"}

\* manager.initialize(), lines 90-110
ApiInitialize(s) ==
  /\ manager[s].initialized = "no" /\ exit_stack[s] = "unused"
  /\ ApiCall("initialize", s, NoTool)
  /\ \E outcome \in InitOutcomes :
       /\ exit_stack' = [exit_stack EXCEPT ![s] = Initialize(outcome).stack]
       /\ manager' = [manager EXCEPT ![s] = Initialize(outcome).manager]
       /\ result' = Report(outcome, s, <<>>, <<>>, <<>>)
  /\ invoked' = NoTool
  /\ UNCHANGED <<TOOL_REGISTRY, registrations>>

\* manager.list_tools(), lines 112-131; invoked records the session method
\* that was entered
ApiListTools(s) ==
  /\ ApiCall("list_tools", s, NoTool)
  /\ IF ~SessionSet(manager[s])
       THEN /\ result' = Report("err_not_initialized", s, <<>>, <<>>, <<>>)
            /\ invoked' = NoTool
            /\ UNCHANGED <<TOOL_REGISTRY, registrations>>
       ELSE /\ invoked' = "session.list_tools"
            /\ \E a \in SessionAnswers(s) :
                 IF a = "answer"
                   THEN \E tools \in ListCandidates(s) :
                          /\ TOOL_REGISTRY' = RegisterTools(TOOL_REGISTRY, s, tools)
                          /\ registrations' = registrations \o
                               [i \in 1..Len(tools) |-> Registration(tools[i], s, "remote")]
                          /\ result' = Report("listed", s, tools, <<>>, <<>>)
                   ELSE /\ result' = Report("session_error", s, <<>>, <<>>, <<>>)
                        /\ UNCHANGED <<TOOL_REGISTRY, registrations>>
  /\ UNCHANGED <<manager, exit_stack>>

\* manager.close(), lines 133-135: the exit stack is unwound, the session
\* field keeps its value
ApiClose(s) ==
  /\ ApiCall("close", s, NoTool)
  /\ exit_stack' = [exit_stack EXCEPT ![s] = "closed"]
  /\ result' = NoResult
  /\ invoked' = NoTool
  /\ UNCHANGED <<manager, TOOL_REGISTRY, registrations>>

\* the tool_execute closure that s's list_tools made for t, lines 137-146
ApiCallTool(s, t) ==
  /\ \E i \in 1..Len(registrations) : registrations[i] = Registration(t, s, "remote")
  /\ ApiCall("call_tool", s, t)
  /\ IF ~SessionSet(manager[s])
       THEN /\ result' = Report("err_not_initialized", s, <<>>, <<>>, <<>>)
            /\ invoked' = NoTool
       ELSE /\ invoked' = "session.call_tool"
            /\ \E a \in SessionAnswers(s) :
                 result' = Report(IF a = "answer" THEN "text" ELSE a, s, <<>>, <<>>, <<>>)
  /\ UNCHANGED <<manager, exit_stack, TOOL_REGISTRY, registrations>>

ManagerNext ==
  \E s \in Range(Servers) :
    \/ ApiInitialize(s)
    \/ ApiListTools(s)
    \/ ApiClose(s)
    \/ \E t \in UNION {Range(l) : l \in ListCandidates(s)} : ApiCallTool(s, t)

ManagerSpec == ManagerInit /\ [][ManagerNext]_vars

(* ---- properties ---- *)
\* the step just taken ran the loader on tool_call'
LoaderStep == pc = "dispatch" /\ tc' = tc + 1 /\ tool_call'.kind = "loader"

\* the loader state and the exposed definitions are as before the step
NoMutation ==
  /\ LOADER_STATE' = LOADER_STATE
  /\ active_tools' = active_tools
  /\ description' = description

LastMessage == messages[Len(messages)]

\* C1: a loader call that lists an activatable name a twice leaves a in
\* active_tools exactly once; the second occurrence is an 'already loaded'
\* notice, neither a second activation nor a failure.
C1_ActivateTwiceOnce ==
  \A a \in RequestNames :
    ( /\ pc = "dispatch" /\ tool_call.kind = "loader" /\ result.kind = "report"
      /\ Count(a, tool_call.tools) = 2
      /\ a \in Range(active_tools) )
    => /\ Count(a, active_tools) = 1
       /\ a \in Range(result.errors)
       /\ Count(a, result.activated) <= 1
       /\ a \notin Range(result.failed)

\* C2: active_tools never holds a name twice, and in Mode B no server's
\* active_tools list holds a name twice.
C2_NoDuplicates ==
  /\ NoDup(active_tools)
  /\ \A s \in DOMAIN LOADER_STATE : NoDup(LOADER_STATE[s].active_tools)

\* C3: a load_tool_summaries call that lists a server missing from the loader
\* state answers 'server not recognized' and changes nothing, whatever else
\* it lists and in whatever order.
C3_UnknownServerNoChange ==
  [][ ( /\ LoaderStep /\ tool_call'.action = "load_tool_summaries"
        /\ \E i \in 1..Len(tool_call'.servers) :
             tool_call'.servers[i] \notin DOMAIN LOADER_STATE )
      => (result'.kind = "err_not_recognized" /\ NoMutation) ]_vars

\* C4 as stated: load_tools while the server's summaries are not loaded
\* (the server unknown included) always answers 'summaries must be loaded
\* first' and changes nothing.
C4_AlwaysSummariesFirst ==
  [][ ( /\ LoaderStep /\ tool_call'.action = "load_tools"
        /\ ( \/ tool_call'.server \notin DOMAIN LOADER_STATE
             \/ ~LOADER_STATE[tool_call'.server].summaries_loaded ) )
      => (result'.kind = "err_summaries_first" /\ NoMutation) ]_vars

\* C4 amended: load_tools while the server's summaries are not loaded changes
\* nothing; it answers 'summaries must be loaded first' when the tools list
\* and the server name are both non-empty, and 'tools list and server are
\* required' otherwise.
C4_SummariesFirst ==
  [][ ( /\ LoaderStep /\ tool_call'.action = "load_tools"
        /\ ( \/ tool_call'.server \notin DOMAIN LOADER_STATE
             \/ ~LOADER_STATE[tool_call'.server].summaries_loaded ) )
      => /\ NoMutation
         /\ IF tool_call'.tools # <<>> /\ tool_call'.server # NoServer
              THEN result'.kind = "err_summaries_first"
                   /\ result'.server = tool_call'.server
              ELSE result'.kind = "err_tools_server_required" ]_vars

\* load_tools(github, [search]) was refused before github's summaries were loaded
C4_Witness ==
  /\ pc = "dispatch" /\ tool_call.action = "load_tools"
  /\ tool_call.server = "github" /\ tool_call.tools = <<"search">>
  /\ "github" \in DOMAIN LOADER_STATE
  /\ result.kind = "err_summaries_first"
  /\ active_tools = <<"loader">>

\* C5: a call of a registered tool that is not in active_tools does not
\* enter the tool's function and gets an explanatory tool message.
C5_InactiveRejected ==
  ( /\ pc \in {"dispatch", "crashed"} /\ tool_call.kind = "tool"
    /\ tool_call.name \in DOMAIN TOOL_REGISTRY
    /\ tool_call.name \notin Range(active_tools) )
  => /\ invoked = NoTool
     /\ messages # <<>>
     /\ LastMessage.tool_call_id = tc

\* C6: a tool whose execution fails yields a tool message with error text for
\* that call; the failure does not leave the dispatch loop.
C6_FailureBecomesText ==
  ( /\ tool_call.kind = "tool" /\ tool_call.fails
    /\ tool_call.name \in DOMAIN TOOL_REGISTRY )
  => /\ pc # "crashed"
     /\ exc = "none"
     /\ messages # <<>>
     /\ LastMessage.tool_call_id = tc

\* C7: when the next model request is due, every tool call of the assistant
\* message has exactly one tool message carrying its id.
C7_OneResultPerCall ==
  (pc = "request" /\ turn >= 1)
  => \A id \in 1..tc :
       Cardinality({i \in 1..Len(messages) : messages[i].tool_call_id = id}) = 1

\* a name the loader cannot know: Mode A, not briefed or not registered;
\* Mode B, not registered
Unknown(n) ==
  IF mode = "A" THEN n \notin DOMAIN briefs \/ n \notin DOMAIN TOOL_REGISTRY
                ELSE n \notin DOMAIN TOOL_REGISTRY

\* a name the call can activate
Activatable(n, call) ==
  /\ n \in DOMAIN TOOL_REGISTRY
  /\ IF mode = "A" THEN n \in DOMAIN briefs
                   ELSE TOOL_REGISTRY[n].server = call.server

InSomeServerList(n, ls) == \E s \in DOMAIN ls : n \in Range(ls[s].active_tools)

\* C8 as stated: an unknown name in an activation never changes active_tools
\* or a server's active_tools and is listed as failed; the other names of
\* the call are still processed.
C8_UnknownAlwaysFailed ==
  [][ (LoaderStep /\ result'.kind = "report")
      => \A n \in Range(tool_call'.tools) :
           /\ Unknown(n)
              => /\ Count(n, active_tools') = Count(n, active_tools)
                 /\ ~InSomeServerList(n, LOADER_STATE')
                 /\ n \in Range(result'.failed)
           /\ Activatable(n, tool_call') => n \in Range(active_tools') ]_vars

\* C8 amended: an unknown name never changes active_tools or a server's
\* active_tools; it is listed as failed unless it is already in active_tools
\* (the loader's own name), and then it is reported as already loaded; the
\* other names of the call are still processed.
C8_UnknownNeverActivated ==
  [][ (LoaderStep /\ result'.kind = "report")
      => \A n \in Range(tool_call'.tools) :
           /\ Unknown(n)
              => /\ Count(n, active_tools') = Count(n, active_tools)
                 /\ ~InSomeServerList(n, LOADER_STATE')
                 /\ IF n \in Range(active_tools)
                      THEN n \in Range(result'.errors) /\ n \notin Range(result'.failed)
                      ELSE n \in Range(result'.failed)
           /\ Activatable(n, tool_call') => n \in Range(active_tools') ]_vars

\* activate([calculator, bogus]) left active_tools = [loader, calculator]
C8_Witness ==
  /\ mode = "A" /\ pc = "dispatch"
  /\ tool_call.tools = <<"calculator", "bogus">>
  /\ active_tools = <<"loader", "calculator">>
  /\ result.activated = <<"calculator">>
  /\ result.failed = <<"bogus">>

\* C9: load_mcp_tools returns whatever providers fail; a provider that
\* succeeded has a loader-state entry and all its tools registered (owned by a
\* succeeded provider that listed them, when load_mcp_tools returns); a failed
\* provider owns no binding, has no loader-state entry and is refused by
\* load_tool_summaries and load_tools.
C9_FailureIsolated ==
  /\ pc = "load" => (exc = "none" /\ srv_i \in 1..Len(Servers))
  /\ (mode = "B" /\ pc # "load") =>
       \A s \in Range(Servers) :
         IF s \in DOMAIN MCP_SERVER_MANAGERS
           THEN /\ s \in DOMAIN LOADER_STATE
                /\ \A t \in Range(MCP_SERVER_MANAGERS[s].tools) :
                     /\ t \in DOMAIN TOOL_REGISTRY
                     /\ pc = "briefs" =>
                          LET o == TOOL_REGISTRY[t].server IN
                          /\ o \in DOMAIN MCP_SERVER_MANAGERS
                          /\ t \in Range(MCP_SERVER_MANAGERS[o].tools)
           ELSE /\ s \notin DOMAIN LOADER_STATE
                /\ \A t \in DOMAIN TOOL_REGISTRY : TOOL_REGISTRY[t].server # s
                /\ (pc = "dispatch" /\ tool_call.action = "load_tool_summaries"
                      /\ s \in Range(tool_call.servers))
                   => result.kind = "err_not_recognized"
                /\ (pc = "dispatch" /\ tool_call.action = "load_tools"
                      /\ tool_call.server = s)
                   => result.kind \in {"err_summaries_first", "err_tools_server_required"}

\* github failed, figma succeeded, and load_tools for github was refused
C9_Witness ==
  /\ mode = "B" /\ pc = "dispatch"
  /\ "github" \notin DOMAIN MCP_SERVER_MANAGERS
  /\ "figma" \in DOMAIN LOADER_STATE
  /\ "draw" \in DOMAIN TOOL_REGISTRY /\ TOOL_REGISTRY["draw"].server = "figma"
  /\ "search" \notin DOMAIN TOOL_REGISTRY
  /\ tool_call.action = "load_tools" /\ tool_call.server = "github"
  /\ result.kind = "err_summaries_first"

\* C10: brief generation never fails and gives every requested name a brief:
\* Mode A, every registry key at loader creation; Mode B, every tool of the
\* server's tool list.
C10_EveryNameBriefed ==
  /\ exc # "briefs"
  /\ (mode = "A" /\ pc \notin {"create_loader", "crashed"})
       => \A n \in DOMAIN ExampleTools : n \in DOMAIN briefs
  /\ mode = "B"
       => \A s \in DOMAIN SERVER_BRIEFS :
            \A t \in Range(MCP_SERVER_MANAGERS[s].tools) :
              t \in DOMAIN SERVER_BRIEFS[s].tool_briefs

\* the conversation loop has been entered (and what follows it)
Started == pc \in {"request", "dispatch", "done"} \/ (pc = "crashed" /\ exc # "briefs")

\* C11: in Mode B every tool of active_tools other than the loader is bound to
\* a server that has a stored manager and a loader-state entry whose
\* summaries_loaded flag is set.
C11_ActiveOnlyAfterSummaries ==
  mode = "B" =>
    \A i \in 1..Len(active_tools) :
      active_tools[i] # "loader" =>
        /\ active_tools[i] \in DOMAIN TOOL_REGISTRY
        /\ LET o == TOOL_REGISTRY[active_tools[i]].server IN
           /\ o \in DOMAIN MCP_SERVER_MANAGERS
           /\ o \in DOMAIN LOADER_STATE
           /\ LOADER_STATE[o].summaries_loaded

\* search was activated through github while figma's summaries stay unloaded
C11_Witness ==
  /\ mode = "B" /\ active_tools = <<"loader", "search">>
  /\ LOADER_STATE["github"].summaries_loaded
  /\ "figma" \in DOMAIN LOADER_STATE /\ ~LOADER_STATE["figma"].summaries_loaded

\* C12: once the conversation has started the loader is the first entry of
\* active_tools in every state, and no step removes it.
C12_LoaderStaysActive ==
  Started => (active_tools # <<>> /\ active_tools[1] = "loader")

\* a loader call activated a tool and the loader is still exposed first
C12_Witness ==
  /\ pc = "dispatch" /\ tool_call.kind = "loader" /\ result.activated # <<>>
  /\ Len(active_tools) >= 2 /\ active_tools[1] = "loader"

\* C13: when the program has ended, normally or by an exception, no exit
\* stack that acquired a transport or session is still open.
C13_EveryProviderClosed ==
  pc \in {"done", "crashed"} => \A s \in DOMAIN exit_stack : exit_stack[s] # "open"

\* C14: startup terminates: load_mcp_tools eventually returns, also when a
\* provider's handshake never completes.
C14_StartupTerminates == <>(pc \notin {"load", "init_hung"})

\* the latest registration under a name, 0 if there is none
LastRegistration(n) ==
  LET at == {i \in 1..Len(registrations) : registrations[i].name = n}
  IN IF at = {} THEN 0 ELSE CHOOSE i \in at : \A j \in at : j <= i

\* C15: a name is in the registry exactly if it was registered, and lookup
\* returns the binding of the most recent registration under that name.
C15_LastWriteWins ==
  \A n \in DOMAIN TOOL_REGISTRY \cup {registrations[i].name : i \in 1..Len(registrations)} :
    /\ n \in DOMAIN TOOL_REGISTRY
    /\ LastRegistration(n) # 0
    /\ TOOL_REGISTRY[n].server = registrations[LastRegistration(n)].server
    /\ TOOL_REGISTRY[n].kind = registrations[LastRegistration(n)].kind

\* draw was registered by github and then by figma, loader by figma and then
\* by create_loader_tool
C15_Witness ==
  /\ mode = "B" /\ Len(registrations) = 5
  /\ registrations[2] = Registration("draw", "github", "remote")
  /\ TOOL_REGISTRY["draw"].server = "figma"
  /\ TOOL_REGISTRY["loader"].kind = "loader"

ExpectedDescription ==
  [s \in DOMAIN LOADER_STATE |->
     [summary |-> SERVER_BRIEFS[s].server_summary,
      loaded  |-> LOADER_STATE[s].summaries_loaded,
      tools   |-> IF LOADER_STATE[s].summaries_loaded
                    THEN SERVER_BRIEFS[s].tool_briefs ELSE EmptyMap]]

\* C17: in Mode B, whenever a model request is built the loader's description
\* carries the summary of every loaded server and a server's tool briefs
\* exactly if its summaries_loaded flag is set; the same holds between the
\* tool calls of a message, so the description changes with the flags only.
C17_DescriptionCurrent ==
  (mode = "B" /\ Started) => description = ExpectedDescription

\* figma's summaries were loaded and the next request shows its briefs
C17_Witness ==
  /\ mode = "B" /\ pc = "request" /\ turn >= 1
  /\ "figma" \in DOMAIN LOADER_STATE /\ LOADER_STATE["figma"].summaries_loaded
  /\ description["figma"].loaded
  /\ description["figma"].tools = SERVER_BRIEFS["figma"].tool_briefs
  /\ DOMAIN SERVER_BRIEFS["figma"].tool_briefs # {}

\* C18: requesting a name that is already in active_tools when the call starts
\* (Mode B: on a server whose summaries are loaded) leaves active_tools and
\* the servers' lists without a new entry for it and reports it as already
\* loaded, neither activated nor failed; a call that requests only such
\* names changes nothing.
C18_ReactivationNoOp ==
  [][ ( /\ LoaderStep /\ tool_call'.action \in {"activate", "load_tools"}
        /\ tool_call'.tools # <<>>
        /\ mode = "B" => ( /\ tool_call'.server \in DOMAIN LOADER_STATE
                           /\ LOADER_STATE[tool_call'.server].summaries_loaded ) )
      => /\ \A a \in Range(tool_call'.tools) \cap Range(active_tools) :
              /\ Count(a, active_tools') = Count(a, active_tools)
              /\ \A s \in DOMAIN LOADER_STATE :
                   Count(a, LOADER_STATE'[s].active_tools)
                     = Count(a, LOADER_STATE[s].active_tools)
              /\ a \in Range(result'.errors)
              /\ a \notin Range(result'.activated)
              /\ a \notin Range(result'.failed)
         /\ Range(tool_call'.tools) \subseteq Range(active_tools) => NoMutation ]_vars

\* calculator, activated by an earlier call, was requested again
C18_Witness ==
  /\ pc = "dispatch" /\ tc >= 2 /\ tool_call.tools = <<"calculator">>
  /\ result.errors = <<"calculator">> /\ result.activated = <<>>
  /\ result.failed = <<>>
  /\ active_tools = <<"loader", "calculator">>

\* the step ran load_tools on a server whose summaries are loaded
LoadToolsStep ==
  /\ LoaderStep /\ tool_call'.action = "load_tools" /\ tool_call'.tools # <<>>
  /\ tool_call'.server \in DOMAIN LOADER_STATE
  /\ LOADER_STATE[tool_call'.server].summaries_loaded

\* n is bound to a loaded server other than the one the call names
ForeignTool(n, call) ==
  /\ n \in DOMAIN TOOL_REGISTRY
  /\ TOOL_REGISTRY[n].server \in DOMAIN LOADER_STATE
  /\ TOOL_REGISTRY[n].server # call.server

NotAdded(n) ==
  /\ Count(n, active_tools') = Count(n, active_tools)
  /\ \A s \in DOMAIN LOADER_STATE :
       Count(n, LOADER_STATE'[s].active_tools) = Count(n, LOADER_STATE[s].active_tools)

\* C19 as stated: load_tools(S, [t]) with t bound to another loaded server T
\* reports t as failed and adds it to no list, whether or not T's summaries
\* are loaded.
C19_ForeignAlwaysFailed ==
  [][ LoadToolsStep
      => \A t \in Range(tool_call'.tools) :
           ForeignTool(t, tool_call') => (t \in Range(result'.failed) /\ NotAdded(t)) ]_vars

\* C19 amended: such a t is added to no list; it is reported as failed unless
\* it is already in active_tools (activated through T), and then it is
\* reported as already loaded.
C19_ForeignNeverActivated ==
  [][ LoadToolsStep
      => \A t \in Range(tool_call'.tools) :
           ForeignTool(t, tool_call')
             => /\ NotAdded(t)
                /\ t \notin Range(result'.activated)
                /\ IF t \in Range(active_tools)
                     THEN t \in Range(result'.errors) /\ t \notin Range(result'.failed)
                     ELSE t \in Range(result'.failed) ]_vars

\* load_tools(github, [draw]) failed for figma's draw, figma's summaries unloaded
C19_Witness ==
  /\ pc = "dispatch" /\ tool_call.action = "load_tools" /\ tool_call.server = "github"
  /\ tool_call.tools = <<"draw">>
  /\ "figma" \in DOMAIN LOADER_STATE /\ ~LOADER_STATE["figma"].summaries_loaded
  /\ TOOL_REGISTRY["draw"].server = "figma"
  /\ result.failed = <<"draw">> /\ active_tools = <<"loader">>

\* C20 as stated: in Mode A a name is activated only if it is a key of briefs
\* and registered; a registered name that is not a key of briefs is reported
\* failed and active_tools keeps its entries.
C20_UnbriefedAlwaysFailed ==
  [][ (LoaderStep /\ mode = "A" /\ tool_call'.action = "activate")
      => \A n \in Range(tool_call'.tools) :
           /\ n \in Range(result'.activated)
                => (n \in DOMAIN briefs /\ n \in DOMAIN TOOL_REGISTRY)
           /\ (n \in DOMAIN TOOL_REGISTRY /\ n \notin DOMAIN briefs)
                => /\ n \in Range(result'.failed)
                   /\ Count(n, active_tools') = Count(n, active_tools) ]_vars

\* C20 amended: a registered name that is not a key of briefs is never
\* activated; it is reported failed unless it is already in active_tools (the
\* loader itself, registered after the briefs were made), and then it is
\* reported as already loaded.
C20_OnlyBriefedActivated ==
  [][ (LoaderStep /\ mode = "A" /\ tool_call'.action = "activate")
      => \A n \in Range(tool_call'.tools) :
           /\ n \in Range(result'.activated)
                => (n \in DOMAIN briefs /\ n \in DOMAIN TOOL_REGISTRY)
           /\ (n \in DOMAIN TOOL_REGISTRY /\ n \notin DOMAIN briefs)
                => /\ Count(n, active_tools') = Count(n, active_tools)
                   /\ n \notin Range(result'.activated)
                   /\ IF n \in Range(active_tools)
                        THEN n \in Range(result'.errors) /\ n \notin Range(result'.failed)
                        ELSE n \in Range(result'.failed) ]_vars

\* the summarizer omitted calculator, and activate([calculator]) failed
C20_Witness ==
  /\ mode = "A" /\ pc = "dispatch" /\ tool_call.tools = <<"calculator">>
  /\ "calculator" \notin DOMAIN briefs /\ "calculator" \in DOMAIN TOOL_REGISTRY
  /\ result.failed = <<"calculator">> /\ result.activated = <<>>
  /\ active_tools = <<"loader">>

\* the lifecycle state of server s's manager
Phase(s) ==
  IF exit_stack[s] = "closed" THEN "Closed"
  ELSE CASE manager[s].initialized = "ok"     -> "Ready"
         [] manager[s].initialized = "failed" -> "Failed"
         [] OTHER                             -> "Unstarted"

\* C21: list_tools and call_tool on a manager that is not Ready (Unstarted,
\* Failed during initialization, or Closed) raise 'not initialized' and do
\* not reach the session.
C21_RefusedUnlessReady ==
  [][ \A s \in Range(Servers) :
        ( /\ pc = "api" /\ tc' = tc + 1
          /\ tool_call'.kind \in {"list_tools", "call_tool"}
          /\ tool_call'.server = s
          /\ Phase(s) # "Ready" )
        => (result'.kind = "err_not_initialized" /\ invoked' = NoTool) ]_vars

\* C22: every tool message dispatch appends carries text content, never a
\* pending coroutine, whatever binding produced it (local synchronous, local
\* asynchronous, remote proxy, or the loader).
C22_ContentIsText ==
  \A i \in 1..Len(messages) : messages[i].content = "text"

\* initialize() and list_tools() of server s's manager both returned
Succeeded(s) ==
  /\ manager[s].initialized = "ok"
  /\ \E i \in 1..Len(registrations) : registrations[i].server = s

\* C23: in Mode B the servers with a loader-state entry are the servers with
\* a stored manager, and both are the providers whose initialize and
\* list_tools succeeded (once load_mcp_tools is past them); load_tools never
\* answers 'No manager for server', and every server the description
\* generator visits has a loader-state entry.
C23_StateMatchesManagers ==
  mode = "B" =>
    /\ DOMAIN LOADER_STATE = DOMAIN MCP_SERVER_MANAGERS
    /\ \A s \in Range(Servers) : s \in DOMAIN LOADER_STATE <=> Succeeded(s)
    /\ result.kind # "err_no_manager"
    /\ DOMAIN SERVER_BRIEFS \subseteq DOMAIN LOADER_STATE
    /\ DOMAIN description \subseteq DOMAIN LOADER_STATE

\* github's list_tools failed, figma loaded, and load_tools(figma, ...) got
\* past the manager lookup
C23_Witness ==
  /\ mode = "B" /\ pc = "dispatch"
  /\ manager["github"].initialized = "ok" /\ "github" \notin DOMAIN LOADER_STATE
  /\ DOMAIN MCP_SERVER_MANAGERS = {"figma"}
  /\ tool_call.action = "load_tools" /\ tool_call.server = "figma"
  /\ result.kind = "report" /\ result.activated = <<"draw">>

\* the entries of active_tools bound to server s, in their order
OwnedActive(s) ==
  SelectSeq(active_tools,
            LAMBDA n : n # "loader" /\ n \in DOMAIN TOOL_REGISTRY
                       /\ TOOL_REGISTRY[n].server = s)

\* C24: in Mode B every server's active_tools list holds exactly the
\* non-loader entries of active_tools bound to that server (in the same
\* order), every non-loader entry is bound to a server of the loader state,
\* the loader is at the first position and nowhere else, and no step
\* removes or reorders an entry of active_tools.
C24_StateAgreesWithActive ==
  /\ [](mode = "B" =>
          /\ \A s \in DOMAIN LOADER_STATE : LOADER_STATE[s].active_tools = OwnedActive(s)
          /\ \A i \in 1..Len(active_tools) :
               /\ active_tools[i] = "loader" <=> i = 1
               /\ i > 1 => /\ active_tools[i] \in DOMAIN TOOL_REGISTRY
                            /\ TOOL_REGISTRY[active_tools[i]].server \in DOMAIN LOADER_STATE)
  /\ [][ mode = "B" =>
            /\ Len(active_tools') >= Len(active_tools)
            /\ SubSeq(active_tools', 1, Len(active_tools)) = active_tools ]_vars

\* draw was activated through figma, then search through github
C24_Witness ==
  /\ mode = "B" /\ active_tools = <<"loader", "draw", "search">>
  /\ LOADER_STATE["github"].active_tools = <<"search">>
  /\ LOADER_STATE["figma"].active_tools = <<"draw">>

\* t is in the tool list that server sv's list_tools returned
ListedBy(t, sv) ==
  sv \in DOMAIN MCP_SERVER_MANAGERS /\ t \in Range(MCP_SERVER_MANAGERS[sv].tools)

\* the step activated t through the server the call names
ActivatedThrough(t, sv) ==
  /\ t \in Range(result'.activated)
  /\ t \in Range(active_tools')
  /\ t \in Range(LOADER_STATE'[sv].active_tools)

\* a dispatched tool that is in a server's active_tools list entered its
\* function, and the function is the proxy of that server
DispatchReachesOwner ==
  ( /\ mode = "B" /\ pc \in {"dispatch", "crashed"} /\ tool_call.kind = "tool" )
  => \A sv \in DOMAIN LOADER_STATE :
       tool_call.name \in Range(LOADER_STATE[sv].active_tools)
         => /\ invoked = tool_call.name
            /\ registrations[LastRegistration(tool_call.name)].server = sv
            /\ manager[sv].session
            /\ pc = "dispatch" => (result.kind = "text" /\ result.server = sv)

====
